---- MODULE Spec2Model ----
(***************************************************************************)
(* Reward distribution of the mina-indexer: the weight and reward          *)
(* arithmetic of model/util, the RewardCalculation run of indexing and the *)
(* accounts part of indexing.Prepare.                                      *)
(*                                                                         *)
(* Numbers.  A big.Float is modelled by the rational it approximates, kept *)
(* in lowest terms.  Every value the model computes has a terminating      *)
(* decimal expansion of fewer than TextDigits significant digits, for      *)
(* which the 64-bit mantissa of new(big.Float) followed by the %.10g text  *)
(* of Float.String() gives back exactly that decimal; FloatString rounds   *)
(* anything else.  A big.Int is modelled by its two lowest machine words   *)
(* [hi, lo], value hi * 2^64 + lo.                                         *)
(***************************************************************************)
EXTENDS Integers, Sequences, FiniteSets

VARIABLES
    \* ---- model/util called on its own (SpecUtil) ----
    uFee,         \* the big.Float the caller's Percentage variable points to
    uHist,        \* the calls made so far: function, arguments, fee, result
    \* ---- indexing.RewardCalculation (Spec) ----
    pc,           \* position of the run in the function body
    block,        \* the model.Block argument
    db,           \* what the store holds for the block's epoch
    storeLog,     \* the store operations called so far, in order
    creatorFee,   \* the big.Float behind validatorEpochs[0].ValidatorFee
    blockReward,  \* local blockReward
    ledger,       \* local ledger (StakedAmount)
    records,      \* local records, Weight filled in by the weight pass
    firstBlock,   \* local firstBlockOfEpoch: "unset" | "nil" | "zero" | "block"
    fbErr,        \* the error FirstBlockOfEpoch returned with it
    rewards,      \* local delegatorsBlockRewards
    idx,          \* index of the next delegator reward to compute
    validatorReward, \* local validatorReward
    importCalls,  \* the calls of Rewards.Import: the list handed over, the error
    persisted,    \* the reward records the store holds
    result,       \* "running" | "ok" | "panic" | an error
    \* ---- indexing.Prepare (SpecPrepare) ----
    qPc,          \* position in Prepare
    qGraph,       \* graphBlock: nil, or a block with its Creator
    qAccounts,    \* what mapper.Accounts returned
    qScope,       \* scope of the range variable acc in the build
    qHeap,        \* the acc variable(s) of the loop, by address
    qMap,         \* accountsMap: public key -> address
    qI,           \* number of loop iterations done
    qData         \* the returned Data.CreatorAccount, or the error

uvars == <<uFee, uHist>>
rvars == <<pc, block, db, storeLog, creatorFee, blockReward, ledger, records,
           firstBlock, fbErr, rewards, idx, validatorReward, importCalls,
           persisted, result>>
qvars == <<qPc, qGraph, qAccounts, qScope, qHeap, qMap, qI, qData>>
vars == <<uvars, rvars, qvars>>

-----------------------------------------------------------------------------
\* Bounds of the model.

\* Longest list of staking records of a ledger.
MaxRecords == 2
\* Calls of the util functions made in a row on one fee variable.
MaxCalls == 2
\* Longest list of accounts mapper.Accounts returns.
MaxAccounts == 3

-----------------------------------------------------------------------------
\* Rational arithmetic behind big.Float.

Abs(a) == IF a < 0 THEN -a ELSE a

RECURSIVE GCD(_, _)
GCD(a, b) == IF b = 0 THEN a ELSE GCD(b, a % b)

\* n/d in lowest terms with a positive denominator (d # 0).
Rat(n, d) ==
    LET g == GCD(Abs(n), Abs(d))
        s == IF d < 0 THEN -1 ELSE 1
    IN  [n |-> s * (n \div g), d |-> s * (d \div g)]

RInt(a) == [n |-> a, d |-> 1]

\* (*big.Float).Sub
RSub(x, y) ==
    LET g == GCD(x.d, y.d)
    IN  Rat(x.n * (y.d \div g) - y.n * (x.d \div g), (x.d \div g) * y.d)

\* (*big.Float).Add, used to sum rewards in the properties
RAdd(x, y) == RSub(x, [n |-> -y.n, d |-> y.d])

\* (*big.Float).Mul; the factors are cancelled crosswise before multiplying
RMul(x, y) ==
    IF x.n = 0 \/ y.n = 0 THEN RInt(0)
    ELSE LET g1 == GCD(Abs(x.n), y.d)
             g2 == GCD(Abs(y.n), x.d)
         IN  Rat((x.n \div g1) * (y.n \div g2), (x.d \div g2) * (y.d \div g1))

\* (*big.Float).Quo, y # 0
RQuo(x, y) == RMul(x, Rat(y.d, y.n))

RECURSIVE Pow10(_)
Pow10(k) == IF k = 0 THEN 1 ELSE 10 * Pow10(k - 1)

\* Significant digits Float.String() prints: Text('g', 10).
TextDigits == 10

\* The least k < TextDigits with d | 10^k, or TextDigits when there is none.
RECURSIVE DecimalPlaces(_, _)
DecimalPlaces(d, k) ==
    IF k >= TextDigits - 1 THEN TextDigits
    ELSE IF Pow10(k) % d = 0 THEN k ELSE DecimalPlaces(d, k + 1)

\* x is a decimal of fewer than TextDigits significant digits.
ShortDecimal(x) ==
    LET k == DecimalPlaces(x.d, 0)
    IN  /\ k < TextDigits
        /\ Abs(x.n) < Pow10(TextDigits - 1) \div (Pow10(k) \div x.d)

\* Digits before the decimal point of |n/d| (0 when below 1).
RECURSIVE IntDigits(_, _)
IntDigits(q, k) == IF q = 0 THEN k ELSE IntDigits(q \div 10, k + 1)

\* Float.String(): the value rounded to TextDigits significant digits.
FloatString(x) ==
    IF ShortDecimal(x) THEN x
    ELSE LET scale == Pow10(TextDigits - IntDigits(Abs(x.n) \div x.d, 0))
         IN  Rat((2 * x.n * scale + x.d) \div (2 * x.d), scale)

-----------------------------------------------------------------------------
\* types.Amount (a *big.Int) and types.Percentage (a *big.Float).

\* Amount{Int: nil}
NilAmount == [nil |-> TRUE]

\* An Amount of value hi * 2^64 + lo
Amt(hi, lo) == [hi |-> hi, lo |-> lo]
Small(v) == Amt(0, v)

\* big.Int.Int64(): the low 64 bits of the value.
Int64(a) == a.lo

IsZero(a) == a.hi = 0 /\ a.lo = 0

\* new(big.Float).SetString(a.String()): a nil Int prints as "<nil>", which
\* does not parse.
AmountFloat(a) ==
    IF a = NilAmount THEN [ok |-> FALSE]
    ELSE [ok |-> TRUE,
          val |-> IF a.hi = 0 THEN RInt(a.lo) ELSE RInt(a.hi * (2 ^ 64) + a.lo)]

\* types.NewAmount(s) and types.NewPercentage(s): the number the text denotes.
NewAmount(x) == x
NewPercentage(x) == x

\* Amount.Add, Amount.Sub (on single-word values)
AmountAdd(a, b) == Small(a.lo + b.lo)
AmountSub(a, b) == Small(a.lo - b.lo)

-----------------------------------------------------------------------------
\* model/util

ErrBalance == "error with balance amount"
ErrZeroTotal == "total staked amount can not be zero"
ErrBlockReward == "error with block reward amount"
ErrStake == "error with stake amount"

Fail(e) == [err |-> e]
Failed(r) == r.err # "nil"

\* CalculateWeight(balance, totalStakedAmount) -> (Percentage, error)
CalculateWeight(balance, totalStakedAmount) ==
    LET w == AmountFloat(balance)
    IN  IF ~w.ok THEN Fail(ErrBalance)
        ELSE IF Int64(totalStakedAmount) = 0 THEN Fail(ErrZeroTotal)
        ELSE LET t == AmountFloat(totalStakedAmount)
             IN  [err |-> "nil",
                  val |-> NewPercentage(FloatString(RQuo(w.val, t.val)))]

\* CalculateValidatorReward(blockReward, validatorFee) -> (Amount, error).
\* validatorFee is a copy of the caller's Percentage and shares its *big.Float:
\* fee is the number behind that pointer as the call leaves it.
CalculateValidatorReward(br, validatorFee) ==
    LET vr == AmountFloat(br)
    IN  IF ~vr.ok THEN [err |-> ErrBlockReward, fee |-> validatorFee]
        ELSE LET f == RQuo(validatorFee, RInt(100))
             IN  [err |-> "nil",
                  val |-> NewAmount(FloatString(RMul(vr.val, f))),
                  fee |-> f]

\* CalculateDelegatorReward(weight, blockReward, validatorFee) -> (Amount, error)
CalculateDelegatorReward(weight, br, validatorFee) ==
    LET b == AmountFloat(br)
    IN  IF ~b.ok THEN [err |-> ErrStake, fee |-> validatorFee]
        ELSE LET remaining == RSub(RInt(100), validatorFee)
                 f == RQuo(remaining, RInt(100))
             IN  [err |-> "nil",
                  val |-> NewAmount(FloatString(RMul(RMul(b.val, f), weight))),
                  fee |-> f]

-----------------------------------------------------------------------------
\* The util functions called by a caller that keeps one fee variable.

FeeSet == {RInt(0), RInt(5), RInt(10), RInt(100)}
RewardSet == {NilAmount, Small(0), Small(100), Small(1000000)}
WeightSet == {Rat(2, 5), Rat(3, 5), RInt(1)}
BalanceSet == {NilAmount, Small(0), Small(400), Small(600)}
\* totals of one word, and totals that are whole multiples of 2^64
TotalSet == {Small(0), Small(1000), Amt(1, 0), Amt(2, 0)}

RIdle ==
    /\ pc = "off" /\ block = "none" /\ db = "none" /\ storeLog = <<>>
    /\ creatorFee = "none" /\ blockReward = "none" /\ ledger = "none"
    /\ records = <<>> /\ firstBlock = "unset" /\ fbErr = "nil"
    /\ rewards = <<>> /\ idx = 0 /\ validatorReward = "none"
    /\ importCalls = <<>> /\ persisted = <<>> /\ result = "off"

QIdle ==
    /\ qPc = "off" /\ qGraph = "none" /\ qAccounts = <<>> /\ qScope = "none"
    /\ qHeap = <<>> /\ qMap = <<>> /\ qI = 0 /\ qData = "none"

UIdle == uFee = "none" /\ uHist = <<>>

InitUtil ==
    /\ uFee \in FeeSet
    /\ uHist = <<>>
    /\ RIdle /\ QIdle

\* fee := ...; CalculateValidatorReward(blockReward, fee)
CallValidatorReward ==
    /\ Len(uHist) < MaxCalls
    /\ \E br \in RewardSet :
         LET out == CalculateValidatorReward(br, uFee)
         IN  /\ uFee' = out.fee
             /\ uHist' = Append(uHist, [fn |-> "validator", args |-> <<br>>,
                                         feeBefore |-> uFee, out |-> out])
    /\ UNCHANGED <<rvars, qvars>>

\* CalculateDelegatorReward(weight, blockReward, fee)
CallDelegatorReward ==
    /\ Len(uHist) < MaxCalls
    /\ \E w \in WeightSet, br \in RewardSet :
         LET out == CalculateDelegatorReward(w, br, uFee)
         IN  /\ uFee' = out.fee
             /\ uHist' = Append(uHist, [fn |-> "delegator", args |-> <<w, br>>,
                                         feeBefore |-> uFee, out |-> out])
    /\ UNCHANGED <<rvars, qvars>>

\* CalculateWeight(balance, totalStakedAmount)
CallWeight ==
    /\ Len(uHist) < MaxCalls
    /\ \E b \in BalanceSet, t \in TotalSet :
         LET out == CalculateWeight(b, t)
         IN  /\ uHist' = Append(uHist, [fn |-> "weight", args |-> <<b, t>>,
                                         feeBefore |-> uFee, out |-> out])
             /\ UNCHANGED uFee
    /\ UNCHANGED <<rvars, qvars>>

NextUtil == CallValidatorReward \/ CallDelegatorReward \/ CallWeight

SpecUtil == InitUtil /\ [][NextUtil]_vars

-----------------------------------------------------------------------------
\* indexing.RewardCalculation(db, block): one run, step by step.

ErrNotFound == "store.ErrNotFound"
ErrFeeNotFound == "validator fee for epoch not found"
ErrFirstBlock == "first block of epoch is not found"
ErrRecordNotFound == "record is not found for "
ErrMapper == "mapper error"
ErrSupercharged == "supercharged weighting error"
\* errors of the store other than ErrNotFound
StoreErrors == {"store: connection refused", "store: timeout"}

Creator == "V"
Keys == {"A", "B", "C"}
Stake == [k \in Keys |-> CASE k = "A" -> 600 [] k = "B" -> 400 [] k = "C" -> 1000]

CoinbaseSet == {NilAmount, Small(0), Small(100), Small(100000)}
FeesSet == {NilAmount, Small(0), Small(100)}
StoreFeeSet == {RInt(0), RInt(10), RInt(100)}

\* Lists of staking records of distinct owners, weight not yet computed.
RecordLists ==
    UNION {{[i \in 1..n |-> [PublicKey |-> f[i], Balance |-> Small(Stake[f[i]]),
                              Weight |-> "unset"]] :
               f \in {g \in [1..n -> Keys] :
                         \A i, j \in 1..n : i # j => g[i] # g[j]}} :
           n \in 0..MaxRecords}

\* no staking ledger of the epoch
NoLedger == [found |-> FALSE]

Ledgers ==
    {NoLedger} \cup
    [found : {TRUE}, StakedAmount : {Small(0), Small(1000)}, records : RecordLists]

Init ==
    /\ pc = "guard"
    /\ block \in [Coinbase : CoinbaseSet, TransactionsFees : FeesSet,
                   SnarkJobsFees : FeesSet, Supercharged : BOOLEAN]
    \* the snark fees of a block are paid out of its coinbase and fees
    /\ IF NilAmount \in {block.Coinbase, block.TransactionsFees, block.SnarkJobsFees}
       THEN TRUE
       ELSE block.SnarkJobsFees.lo <= block.Coinbase.lo + block.TransactionsFees.lo
    /\ db \in [fees : {<<>>} \cup {<<f>> : f \in StoreFeeSet},
                ledger : Ledgers, firstBlock : BOOLEAN]
    /\ storeLog = <<>>
    /\ creatorFee = "unset"
    /\ blockReward = "unset"
    /\ ledger = "unset"
    /\ records = <<>>
    /\ firstBlock = "unset"
    /\ fbErr = "nil"
    /\ rewards = <<>>
    /\ idx = 1
    /\ validatorReward = "unset"
    /\ importCalls = <<>>
    /\ persisted = <<>>
    /\ result = "running"
    /\ UIdle /\ QIdle

\* return err / return nil
Return(r) == pc' = "done" /\ result' = r

\* line 18 with a zero amount taken for an absent one
RewardsDeferredOnZero(b) ==
    \/ b.Coinbase \in {NilAmount, Small(0)}
    \/ b.TransactionsFees \in {NilAmount, Small(0)}
    \/ b.SnarkJobsFees \in {NilAmount, Small(0)}

\* line 18: any of the three amounts has a nil Int
RewardsDeferred(b) ==
    \/ b.Coinbase = NilAmount
    \/ b.TransactionsFees = NilAmount
    \/ b.SnarkJobsFees = NilAmount

\* lines 17-20
Guard ==
    /\ pc = "guard"
    /\ IF RewardsDeferred(block) THEN Return("ok")
       ELSE pc' = "fee" /\ UNCHANGED result
    /\ UNCHANGED <<block, db, storeLog, creatorFee, blockReward, ledger, records,
                   firstBlock, fbErr, rewards, idx, validatorReward, importCalls,
                   persisted>>
    /\ UNCHANGED <<uvars, qvars>>

\* db.ValidatorsEpochs.GetValidatorEpochs: the rows of (epoch, creator); no
\* row comes with a nil error or with ErrNotFound
GetValidatorEpochsResults ==
    {[rows |-> <<>>, err |-> e] : e \in StoreErrors}
    \cup (IF db.fees = <<>>
          THEN {[rows |-> <<>>, err |-> "nil"], [rows |-> <<>>, err |-> ErrNotFound]}
          ELSE {[rows |-> db.fees, err |-> "nil"]})

\* lines 23-32 with a missing fee taken for "not yet available", as a
\* missing ledger is
ResolveFeeAsDeferred(validatorEpochs, err) ==
    IF err # "nil" /\ err # ErrNotFound THEN [return |-> TRUE, err |-> err]
    ELSE IF Len(validatorEpochs) = 0 THEN [return |-> TRUE, err |-> "ok"]
    ELSE [return |-> FALSE, fee |-> validatorEpochs[1]]

\* lines 23-32: what the run does with (validatorEpochs, err)
ResolveFee(validatorEpochs, err) ==
    IF err # "nil" /\ err # ErrNotFound THEN [return |-> TRUE, err |-> err]
    ELSE IF Len(validatorEpochs) = 0 THEN [return |-> TRUE, err |-> ErrFeeNotFound]
    ELSE IF err # "nil" THEN [return |-> TRUE, err |-> err]
    ELSE [return |-> FALSE, fee |-> validatorEpochs[1]]

\* lines 33-34
BlockRewardOf(b) == AmountSub(AmountAdd(b.Coinbase, b.TransactionsFees), b.SnarkJobsFees)

\* lines 22-34
ResolveValidatorFee ==
    /\ pc = "fee"
    /\ \E got \in GetValidatorEpochsResults :
         /\ storeLog' = Append(storeLog, [op |-> "GetValidatorEpochs", err |-> got.err])
         /\ LET r == ResolveFee(got.rows, got.err)
            IN  IF r.return
                THEN Return(r.err) /\ UNCHANGED <<creatorFee, blockReward>>
                ELSE /\ creatorFee' = r.fee
                     /\ blockReward' = BlockRewardOf(block)
                     /\ pc' = "ledger"
                     /\ UNCHANGED result
    /\ UNCHANGED <<block, db, ledger, records, firstBlock, fbErr, rewards, idx,
                   validatorReward, importCalls, persisted>>
    /\ UNCHANGED <<uvars, qvars>>

\* db.Staking.FindLedger(block.Epoch)
FindLedgerResults ==
    {[ledger |-> NoLedger, err |-> e] : e \in StoreErrors}
    \cup (IF db.ledger = NoLedger
          THEN {[ledger |-> NoLedger, err |-> ErrNotFound]}
          ELSE {[ledger |-> [found |-> TRUE, StakedAmount |-> db.ledger.StakedAmount],
                 err |-> "nil"]})

\* lines 37-42: what the run does with the error of FindLedger
ResolveLedger(err) ==
    IF err # "nil" /\ err # ErrNotFound THEN [return |-> TRUE, res |-> err]
    ELSE IF err = ErrNotFound THEN [return |-> TRUE, res |-> "ok"]
    ELSE [return |-> FALSE]

\* lines 36-42
FindLedger ==
    /\ pc = "ledger"
    /\ \E got \in FindLedgerResults :
         /\ storeLog' = Append(storeLog, [op |-> "FindLedger", err |-> got.err])
         /\ LET r == ResolveLedger(got.err)
            IN  IF r.return
                THEN Return(r.res) /\ UNCHANGED ledger
                ELSE ledger' = got.ledger /\ pc' = "records" /\ UNCHANGED result
    /\ UNCHANGED <<block, db, creatorFee, blockReward, records, firstBlock, fbErr,
                   rewards, idx, validatorReward, importCalls, persisted>>
    /\ UNCHANGED <<uvars, qvars>>

\* db.Staking.LedgerRecords(ledger.ID): an empty ledger comes with a nil
\* error or with ErrNotFound
LedgerRecordsResults ==
    {[records |-> <<>>, err |-> e] : e \in StoreErrors}
    \cup {[records |-> db.ledger.records, err |-> "nil"]}
    \cup (IF db.ledger.records = <<>>
          THEN {[records |-> <<>>, err |-> ErrNotFound]} ELSE {})

\* lines 44-47
LedgerRecords ==
    /\ pc = "records"
    /\ \E got \in LedgerRecordsResults :
         /\ storeLog' = Append(storeLog, [op |-> "LedgerRecords", err |-> got.err])
         /\ IF got.err # "nil" /\ got.err # ErrNotFound
            THEN Return(got.err) /\ UNCHANGED records
            ELSE records' = got.records /\ pc' = "firstBlock" /\ UNCHANGED result
    /\ UNCHANGED <<block, db, creatorFee, blockReward, ledger, firstBlock, fbErr,
                   rewards, idx, validatorReward, importCalls, persisted>>
    /\ UNCHANGED <<uvars, qvars>>

\* db.Blocks.FirstBlockOfEpoch: with ErrNotFound the store hands back a nil
\* pointer or a pointer to an empty Block
FirstBlockOfEpochResults ==
    {[ptr |-> "nil", err |-> e] : e \in StoreErrors}
    \cup (IF db.firstBlock
          THEN {[ptr |-> "block", err |-> "nil"]}
          ELSE {[ptr |-> "nil", err |-> ErrNotFound],
                [ptr |-> "zero", err |-> ErrNotFound],
                [ptr |-> "nil", err |-> "nil"]})

\* lines 50-58: what the run does with (firstBlockOfEpoch, err); reading
\* .Slot through a nil pointer panics
ResolveFirstBlock(ptr, err) ==
    IF err # "nil" /\ err # ErrNotFound THEN [kind |-> "return", err |-> err]
    ELSE IF err = "nil" /\ ptr = "nil" THEN [kind |-> "return", err |-> ErrFirstBlock]
    ELSE IF ptr = "nil" THEN [kind |-> "panic"]
    ELSE [kind |-> "go"]

\* lines 49-58
FirstBlockOfEpoch ==
    /\ pc = "firstBlock"
    /\ \E got \in FirstBlockOfEpochResults :
         /\ storeLog' = Append(storeLog, [op |-> "FirstBlockOfEpoch", err |-> got.err])
         /\ LET r == ResolveFirstBlock(got.ptr, got.err)
            IN  /\ firstBlock' = got.ptr
                /\ fbErr' = got.err
                /\ CASE r.kind = "return" -> Return(r.err)
                     [] r.kind = "panic" -> Return("panic")
                     [] OTHER -> pc' = "weights" /\ UNCHANGED result
    /\ UNCHANGED <<block, db, creatorFee, blockReward, ledger, records, rewards,
                   idx, validatorReward, importCalls, persisted>>
    /\ UNCHANGED <<uvars, qvars>>

\* Index of the first record whose weight cannot be computed.
RECURSIVE FirstFailure(_, _)
FirstFailure(outs, i) ==
    IF i > Len(outs) THEN 0
    ELSE IF Failed(outs[i]) THEN i ELSE FirstFailure(outs, i + 1)

\* util.CalculateWeightsNonSupercharged(ledger.StakedAmount, records): the
\* weight of every record is its balance over the ledger's staked amount
CalculateWeightsNonSupercharged(total, recs) ==
    LET outs == [i \in DOMAIN recs |-> CalculateWeight(recs[i].Balance, total)]
        bad == FirstFailure(outs, 1)
    IN  IF bad # 0 THEN [err |-> outs[bad].err]
        ELSE [err |-> "nil",
              records |-> [i \in DOMAIN recs |->
                             [recs[i] EXCEPT !.Weight = outs[i].val]]]

\* lines 76-79: recordsMap, public key -> weight
RecordsMap(recs) ==
    [k \in {recs[i].PublicKey : i \in DOMAIN recs} |->
        LET i == CHOOSE j \in DOMAIN recs :
                   /\ recs[j].PublicKey = k
                   /\ \A l \in DOMAIN recs : recs[l].PublicKey = k => l <= j
        IN  recs[i].Weight]

\* lines 60-64
WeightsNonSupercharged ==
    /\ pc = "weights"
    /\ ~block.Supercharged
    /\ LET r == CalculateWeightsNonSupercharged(ledger.StakedAmount, records)
       IN  IF Failed(r) THEN Return(r.err) /\ UNCHANGED records
           ELSE records' = r.records /\ pc' = "map" /\ UNCHANGED result
    /\ UNCHANGED <<block, db, storeLog, creatorFee, blockReward, ledger, firstBlock,
                   fbErr, rewards, idx, validatorReward, importCalls, persisted>>
    /\ UNCHANGED <<uvars, qvars>>

\* lines 65-74: util.CalculateSuperchargedWeighting and
\* util.CalculateWeightsSupercharged fail, or give every record a weight
WeightsSupercharged ==
    /\ pc = "weights"
    /\ block.Supercharged
    /\ \/ Return(ErrSupercharged) /\ UNCHANGED records
       \/ /\ \E w \in [DOMAIN records -> WeightSet] :
               records' = [i \in DOMAIN records |-> [records[i] EXCEPT !.Weight = w[i]]]
          /\ pc' = "map"
          /\ UNCHANGED result
    /\ UNCHANGED <<block, db, storeLog, creatorFee, blockReward, ledger, firstBlock,
                   fbErr, rewards, idx, validatorReward, importCalls, persisted>>
    /\ UNCHANGED <<uvars, qvars>>

\* mapper.DelegatorBlockRewards(records, block): one reward record per
\* staking record, owned by the record's account, reward not yet set
DelegatorBlockRewards(recs) ==
    [i \in DOMAIN recs |->
        [OwnerAccount |-> recs[i].PublicKey, RewardOwnerType |-> "delegator",
         Reward |-> RInt(0)]]

\* mapper.ValidatorBlockReward(block)
ValidatorBlockReward ==
    [OwnerAccount |-> Creator, RewardOwnerType |-> "validator", Reward |-> RInt(0)]

\* lines 81-84 (and the loop of line 85 over an empty list)
MapDelegators ==
    /\ pc = "map"
    /\ \/ Return(ErrMapper) /\ UNCHANGED <<rewards, idx>>
       \/ /\ rewards' = DelegatorBlockRewards(records)
          /\ idx' = 1
          /\ pc' = IF records = <<>> THEN "import" ELSE "split"
          /\ UNCHANGED result
    /\ UNCHANGED <<block, db, storeLog, creatorFee, blockReward, ledger, records,
                   firstBlock, fbErr, validatorReward, importCalls, persisted>>
    /\ UNCHANGED <<uvars, qvars>>

\* lines 85-97: one iteration of the loop over delegatorsBlockRewards
SplitStep ==
    /\ pc = "split"
    /\ LET dbr == rewards[idx]
           recordsMap == RecordsMap(records)
       IN  IF dbr.OwnerAccount \notin DOMAIN recordsMap
           THEN Return(ErrRecordNotFound) /\ UNCHANGED <<creatorFee, rewards, idx>>
           ELSE LET out == CalculateDelegatorReward(recordsMap[dbr.OwnerAccount],
                                                     blockReward, creatorFee)
                IN  /\ creatorFee' = out.fee
                    /\ IF Failed(out)
                       THEN Return(out.err) /\ UNCHANGED <<rewards, idx>>
                       ELSE /\ rewards' = [rewards EXCEPT ![idx].Reward = out.val]
                            /\ idx' = idx + 1
                            /\ pc' = IF idx = Len(rewards) THEN "import" ELSE "split"
                            /\ UNCHANGED result
    /\ UNCHANGED <<block, db, storeLog, blockReward, ledger, records, firstBlock,
                   fbErr, validatorReward, importCalls, persisted>>
    /\ UNCHANGED <<uvars, qvars>>

\* db.Rewards.Import(list): nil, or an error that stores nothing
ImportResults == {"nil"} \cup StoreErrors

\* lines 99-101 and 113-115 with the error of the import dropped
AfterImportIgnoringError(err) == [return |-> FALSE]

\* lines 99-101 and 113-115: if err := db.Rewards.Import(...); err != nil
AfterImport(err) ==
    IF err # "nil" THEN [return |-> TRUE, err |-> err] ELSE [return |-> FALSE]

\* lines 99-101
ImportDelegators ==
    /\ pc = "import"
    /\ \E err \in ImportResults :
         /\ storeLog' = Append(storeLog, [op |-> "Rewards.Import", err |-> err])
         /\ importCalls' = Append(importCalls, [list |-> rewards, err |-> err])
         /\ IF AfterImport(err).return
            THEN Return(AfterImport(err).err) /\ UNCHANGED persisted
            ELSE /\ persisted' = persisted \o rewards
                 /\ pc' = "validator"
                 /\ UNCHANGED result
    /\ UNCHANGED <<block, db, creatorFee, blockReward, ledger, records, firstBlock,
                   fbErr, rewards, idx, validatorReward>>
    /\ UNCHANGED <<uvars, qvars>>

\* lines 103-111
ComputeValidatorReward ==
    /\ pc = "validator"
    /\ \/ Return(ErrMapper) /\ UNCHANGED <<validatorReward, creatorFee>>
       \/ LET out == CalculateValidatorReward(blockReward, creatorFee)
          IN  /\ creatorFee' = out.fee
              /\ IF Failed(out) THEN Return(out.err) /\ UNCHANGED validatorReward
                 ELSE /\ validatorReward' =
                            [ValidatorBlockReward EXCEPT !.Reward = out.val]
                      /\ pc' = "importValidator"
                      /\ UNCHANGED result
    /\ UNCHANGED <<block, db, storeLog, blockReward, ledger, records, firstBlock,
                   fbErr, rewards, idx, importCalls, persisted>>
    /\ UNCHANGED <<uvars, qvars>>

\* lines 113-116
ImportValidator ==
    /\ pc = "importValidator"
    /\ \E err \in ImportResults :
         /\ storeLog' = Append(storeLog, [op |-> "Rewards.Import", err |-> err])
         /\ importCalls' = Append(importCalls,
                                   [list |-> <<validatorReward>>, err |-> err])
         /\ IF AfterImport(err).return
            THEN Return(AfterImport(err).err) /\ UNCHANGED persisted
            ELSE persisted' = persisted \o <<validatorReward>> /\ Return("ok")
    /\ UNCHANGED <<block, db, creatorFee, blockReward, ledger, records, firstBlock,
                   fbErr, rewards, idx, validatorReward>>
    /\ UNCHANGED <<uvars, qvars>>

Next ==
    \/ Guard
    \/ ResolveValidatorFee
    \/ FindLedger
    \/ LedgerRecords
    \/ FirstBlockOfEpoch
    \/ WeightsNonSupercharged
    \/ WeightsSupercharged
    \/ MapDelegators
    \/ SplitStep
    \/ ImportDelegators
    \/ ComputeValidatorReward
    \/ ImportValidator

Spec == Init /\ [][Next]_vars

-----------------------------------------------------------------------------
\* indexing.Prepare: the accounts map and the creator's account.

ErrCreatorNotFound == "creator is not found in accounts map "

NilGraph == [present |-> FALSE]

\* Lists of accounts of distinct public keys.
AccountLists ==
    UNION {{[i \in 1..n |-> [PublicKey |-> f[i], Balance |-> Stake[f[i]]]] :
               f \in {g \in [1..n -> Keys] :
                         \A i, j \in 1..n : i # j => g[i] # g[j]}} :
           n \in 0..MaxAccounts}

\* The range variable acc is one variable for the whole loop (Go before
\* 1.22) or a new one in every iteration (Go 1.22 and later): the go
\* directive of the build decides.
Scopes == {"loop", "iteration"}

InitPrepare ==
    /\ qPc = "mappers"
    /\ qScope \in Scopes
    /\ \/ qGraph = NilGraph /\ qAccounts = <<>>
       \/ /\ qGraph \in [present : {TRUE}, Creator : Keys \cup {Creator}]
          /\ qAccounts \in AccountLists
    /\ qHeap = <<>>
    /\ qMap = <<>>
    /\ qI = 0
    /\ qData = "none"
    /\ UIdle /\ RIdle

\* return nil, err
PrepareFails(e) == qPc' = "done" /\ qData' = [err |-> e]

\* lines 15-62: the mappers up to mapper.Accounts fail or succeed
PrepareMappers ==
    /\ qPc = "mappers"
    /\ \/ PrepareFails(ErrMapper)
       \/ qPc' = "loop" /\ UNCHANGED qData
    /\ UNCHANGED <<qGraph, qAccounts, qScope, qHeap, qMap, qI>>
    /\ UNCHANGED <<uvars, rvars>>

\* Address of the variable acc in iteration i.
AddressOfAcc(scope, i) == IF scope = "loop" THEN 1 ELSE i

\* accountsMap[key] = ptr
MapPut(m, key, ptr) == [k \in DOMAIN m \cup {key} |-> IF k = key THEN ptr ELSE m[k]]

\* lines 63-65: one iteration, acc := accounts[i]; accountsMap[acc.PublicKey] = &acc
PrepareLoop ==
    /\ qPc = "loop"
    /\ qI < Len(qAccounts)
    /\ LET i == qI + 1
           a == AddressOfAcc(qScope, i)
       IN  /\ qHeap' = [p \in DOMAIN qHeap \cup {a} |->
                           IF p = a THEN qAccounts[i] ELSE qHeap[p]]
           /\ qMap' = MapPut(qMap, qAccounts[i].PublicKey, a)
           /\ qI' = i
    /\ UNCHANGED <<qPc, qGraph, qAccounts, qScope, qData>>
    /\ UNCHANGED <<uvars, rvars>>

\* lines 70-74: creatorAcc, ok = accountsMap[graphBlock.Creator]
LookupCreator(m, graph) ==
    IF graph.Creator \in DOMAIN m
    THEN [ok |-> TRUE, ptr |-> m[graph.Creator]]
    ELSE [ok |-> FALSE, ptr |-> 0]

\* lines 66-95: after the loop
PrepareFinish ==
    /\ qPc = "loop"
    /\ qI = Len(qAccounts)
    /\ IF ~qGraph.present
       THEN qPc' = "done" /\ qData' = [err |-> "nil", CreatorAccount |-> "nil"]
       ELSE LET c == LookupCreator(qMap, qGraph)
            IN  IF ~c.ok THEN PrepareFails(ErrCreatorNotFound)
                ELSE \/ PrepareFails(ErrMapper)
                     \/ /\ qPc' = "done"
                        /\ qData' = [err |-> "nil", CreatorAccount |-> qHeap[c.ptr]]
    /\ UNCHANGED <<qGraph, qAccounts, qScope, qHeap, qMap, qI>>
    /\ UNCHANGED <<uvars, rvars>>

NextPrepare == PrepareMappers \/ PrepareLoop \/ PrepareFinish

SpecPrepare == InitPrepare /\ [][NextPrepare]_vars

-----------------------------------------------------------------------------
\* Properties of model/util (SpecUtil).

RewardCalls == {i \in DOMAIN uHist : uHist[i].fn \in {"validator", "delegator"}}
WeightCalls == {i \in DOMAIN uHist : uHist[i].fn = "weight"}

\* C3: CalculateValidatorReward and CalculateDelegatorReward are pure: the
\* caller's fee holds the same number after the call as before it, and a
\* repeated call with the same arguments returns the same result.
RewardCallsArePure ==
    /\ \A i \in RewardCalls : uHist[i].out.fee = uHist[i].feeBefore
    /\ \A i, j \in RewardCalls :
         (uHist[i].fn = uHist[j].fn /\ uHist[i].args = uHist[j].args)
            => (uHist[i].out.err = uHist[j].out.err
                /\ (~Failed(uHist[i].out) => uHist[i].out.val = uHist[j].out.val))

\* q = balance / total, in words of 64 bits: q.n * total = balance * q.d
IsQuotient(q, balance, total) ==
    /\ q.n * total.hi = balance.hi * q.d
    /\ q.n * total.lo = balance.lo * q.d

\* C8: CalculateWeight fails whenever the total is zero, fails with the
\* zero-total error only when the total is zero, and for a parsable balance
\* and a non-zero total of any size returns balance / total.
WeightFailsOnlyOnZeroTotal ==
    \A i \in WeightCalls :
        LET balance == uHist[i].args[1]
            total == uHist[i].args[2]
            out == uHist[i].out
        IN  /\ IsZero(total) => Failed(out)
            /\ out.err = ErrZeroTotal => IsZero(total)
            /\ (balance # NilAmount /\ ~IsZero(total))
                  => (~Failed(out) /\ IsQuotient(out.val, balance, total))

-----------------------------------------------------------------------------
\* Properties of RewardCalculation (Spec).

AnyAmountAbsent ==
    \/ block.Coinbase = NilAmount
    \/ block.TransactionsFees = NilAmount
    \/ block.SnarkJobsFees = NilAmount

Done == pc = "done"
HardError == Done /\ result \notin {"ok", "panic"}
\* the run returned nil after both imports
Distributed == Done /\ result = "ok" /\ Len(importCalls) = 2

RECURSIVE SumRewards(_)
SumRewards(list) ==
    IF list = <<>> THEN RInt(0) ELSE RAdd(list[1].Reward, SumRewards(Tail(list)))

RECURSIVE SumWeights(_)
SumWeights(recs) ==
    IF recs = <<>> THEN RInt(0) ELSE RAdd(recs[1].Weight, SumWeights(Tail(recs)))

\* the fee the store holds for (epoch, creator)
StoreFee == db.fees[1]

\* C1: in a run that returns success after persisting, with the fee in
\* [0,100] and weights summing to 1, the block reward is Coinbase +
\* TransactionsFees - SnarkJobsFees and the validator's reward plus the
\* delegators' rewards handed to Rewards.Import add up to it.
RewardsAddUpToBlockReward ==
    (Distributed /\ SumWeights(records) = RInt(1)
       /\ StoreFee.n >= 0 /\ StoreFee.n <= 100 * StoreFee.d)
    => /\ blockReward = Small(block.Coinbase.lo + block.TransactionsFees.lo
                                - block.SnarkJobsFees.lo)
       /\ RAdd(importCalls[2].list[1].Reward, SumRewards(importCalls[1].list))
            = RInt(blockReward.lo)

\* blockReward * ((100 - fee) / 100) * weight
ProRataShare(br, fee, weight) ==
    RMul(RMul(RInt(br.lo), RQuo(RSub(RInt(100), fee), RInt(100))), weight)

\* C2: every delegator record i gets blockReward * ((100 - fee) / 100) *
\* weight_i, fee being the validator fee of the store for (epoch, creator).
EveryDelegatorGetsProRataShare ==
    Distributed =>
        \A i \in DOMAIN records :
            importCalls[1].list[i].Reward
                = ProRataShare(blockReward, StoreFee, records[i].Weight)

\* C4: when the run returns a hard error, no reward record of the block has
\* been persisted.
NoPartialPersistence == HardError => persisted = <<>>

LastStoreOp == storeLog[Len(storeLog)].op

\* C5: the run never crashes; with the first block of the epoch absent and
\* the block not supercharged the run goes on to the weight pass, and with
\* it absent and the block supercharged the run returns a hard error.
FirstBlockAbsenceHandled ==
    /\ result # "panic"
    /\ (firstBlock # "unset" /\ fbErr = ErrNotFound) =>
          IF block.Supercharged
          THEN HardError /\ LastStoreOp = "FirstBlockOfEpoch"
          ELSE ~(Done /\ LastStoreOp = "FirstBlockOfEpoch")

\* C6: with the reward components present, a missing validator fee makes the
\* run return "validator fee for epoch not found" whether or not the ledger
\* exists, a missing ledger with the fee present makes it return success,
\* and in both cases Rewards.Import is never called.
AbsentFeeFailsAbsentLedgerSkips ==
    (Done /\ ~AnyAmountAbsent) =>
        /\ (db.fees = <<>> /\ storeLog[1].err \notin StoreErrors)
              => (result = ErrFeeNotFound /\ importCalls = <<>> /\ Len(storeLog) = 1)
        /\ (db.fees # <<>> /\ Len(storeLog) >= 2 /\ storeLog[2].err = ErrNotFound)
              => (result = "ok" /\ importCalls = <<>> /\ Len(storeLog) = 2)

\* witness of C6: the fee is missing, the ledger exists, the run has failed
AbsentFeeWithLedgerReached ==
    /\ Done /\ ~AnyAmountAbsent
    /\ db.fees = <<>> /\ db.ledger # NoLedger
    /\ result = ErrFeeNotFound

\* C7: with any of Coinbase, TransactionsFees, SnarkJobsFees absent the run
\* returns success without any store operation; with all three present, zero
\* or not, the run does go to the store.
AbsentAmountSkipsStore ==
    /\ AnyAmountAbsent => (storeLog = <<>> /\ importCalls = <<>> /\ persisted = <<>>)
    /\ (AnyAmountAbsent /\ pc # "guard") => (Done /\ result = "ok")
    /\ (~AnyAmountAbsent /\ Done) => storeLog # <<>>

\* witness of C7: a run skipped for an absent amount beside a zero one
SkippedRunReached ==
    /\ Done /\ result = "ok"
    /\ block.Coinbase = NilAmount /\ block.TransactionsFees = Small(0)

\* C9: a successful run that reaches persistence calls Rewards.Import exactly
\* twice, first with the delegator rewards, one per staking record, then
\* with the single validator reward; a failed import ends the run with its
\* error, and is not tried again.
ImportsInOrder ==
    /\ Len(importCalls) <= 2
    /\ (Done /\ result = "ok" /\ importCalls # <<>>) =>
          /\ Len(importCalls) = 2
          /\ Len(importCalls[1].list) = Len(records)
          /\ \A i \in DOMAIN records :
                /\ importCalls[1].list[i].OwnerAccount = records[i].PublicKey
                /\ importCalls[1].list[i].RewardOwnerType = "delegator"
          /\ Len(importCalls[2].list) = 1
          /\ importCalls[2].list[1].RewardOwnerType = "validator"
          /\ importCalls[2].list[1].OwnerAccount = Creator
    /\ \A i \in DOMAIN importCalls :
          importCalls[i].err # "nil" =>
              (i = Len(importCalls) /\ Done /\ result = importCalls[i].err)

\* witness of C9: two delegator rewards, then the validator's, all stored
TwoImportsReached ==
    /\ Distributed
    /\ Len(importCalls[1].list) = 2
    /\ Len(persisted) = 3

-----------------------------------------------------------------------------
\* Properties of Prepare (SpecPrepare).

\* C10: with a graph block and two or more accounts, one of them the
\* creator's, the returned CreatorAccount is the account whose PublicKey is
\* graphBlock.Creator.
CreatorAccountIsCreators ==
    (/\ qPc = "done"
     /\ qGraph.present
     /\ Len(qAccounts) >= 2
     /\ \E i \in DOMAIN qAccounts : qAccounts[i].PublicKey = qGraph.Creator
     /\ qData.err = "nil")
    => qData.CreatorAccount.PublicKey = qGraph.Creator

====
